---------------------------- MODULE Spec2Model ----------------------------
(***************************************************************************)
(* A model of src/tsvtools/cli.py: the page2tsv extraction pass, the       *)
(* tsv2page patcher and the find_entities enrichment command.              *)
(*                                                                         *)
(* page2tsv is modelled loop iteration by loop iteration.  The document    *)
(* (pages of the file group, their regions, lines and words) is an input;  *)
(* each element is drawn from a small pool when the walk first reaches it. *)
(* An attribute getter of the document library can return a value, return  *)
(* None (attribute absent) or raise (attribute unreadable).                *)
(***************************************************************************)
EXTENDS Integers, Sequences, FiniteSets, TLC

VARIABLES
    purpose,        \* --purpose: "fonts" or "skew"
    segment_type,   \* --segment-type
    pc,             \* position of page2tsv in its code
    exc,            \* the uncaught exception that ended page2tsv, or "none"
    outfile,        \* tsv_out_file: [header, comments, rows]
    tsv,            \* the list tsv of record tuples
    urls,           \* the list urls
    page,           \* the current page: its number, page_id, url_id, rotation, ...
    cur,            \* the enclosing region / line of the loop in progress
    lines,          \* the list lines of (line, line_rotation, reg, region_rotation)
    segments,       \* the list segments (and words while it is being built)
    idx,            \* index of the loop over lines (185) or over segments (194)
    nodes,          \* number of pages, regions, lines and words read so far
    pages,          \* the pages read so far, in file-group order (history)
    doc,            \* the regions, lines and words read so far (history)
    t2p,            \* state of tsv2page
    fe              \* state of find_entities

p2tVars == <<purpose, segment_type, pc, exc, outfile, tsv, urls, page, cur,
             lines, segments, idx, nodes, pages, doc>>
vars == <<purpose, segment_type, pc, exc, outfile, tsv, urls, page, cur,
          lines, segments, idx, nodes, pages, doc, t2p, fe>>

-----------------------------------------------------------------------------
(* Bounds of the model *)

\* the document has at most this many pages, regions, lines and words
MaxNodes == 4

\* the modulus of every emitted rotation
FullTurn == 360

-----------------------------------------------------------------------------
(* Values of the document library *)

\* What a getter of the document library does: it returns a value, returns
\* None (the attribute is absent) or raises (the attribute is unreadable).
Val(v) == [kind |-> "value", v |-> v]
NoneV == [kind |-> "None", v |-> 0]
RaiseV == [kind |-> "raise", v |-> 0]
NoEquivs == [kind |-> "raise", v |-> << >>]

PolyA == << <<1, 2>>, <<3, 0>> >>
PolyB == << <<0, 0>>, <<4, 1>>, <<2, 5>> >>
\* the points of a Coords that gives no bounding box
BadPoints == << >>

\* The pool of regions, lines and words.  id is the local id, orientation
\* what get_orientation() does, points the polygon of get_Coords(), equivs
\* what get_TextEquiv() does (the Unicode of each alternative), language,
\* style and fontFamily what get_language(), get_TextStyle() and
\* get_fontFamily() do ("None": absent, "raise": unreadable).
Elements ==
    { [id |-> "r",   orientation |-> NoneV,    points |-> PolyA,
       equivs |-> Val(<<"Hello">>), language |-> "None",
       style |-> "None", fontFamily |-> "None"],
      [id |-> "a_r", orientation |-> Val(350), points |-> PolyB,
       equivs |-> Val(<<"Hello", "Hallo">>), language |-> "de",
       style |-> "TextStyle", fontFamily |-> "Times"],
      [id |-> "r",   orientation |-> Val(-20), points |-> PolyB,
       equivs |-> Val(<< >>), language |-> "de",
       style |-> "TextStyle", fontFamily |-> "None"],
      [id |-> "a_r", orientation |-> RaiseV,   points |-> PolyA,
       equivs |-> NoEquivs, language |-> "raise",
       style |-> "raise", fontFamily |-> "None"],
      [id |-> "b",   orientation |-> Val(-20), points |-> BadPoints,
       equivs |-> Val(<<"Hello">>), language |-> "de",
       style |-> "None", fontFamily |-> "None"] }

\* The pool of pages: the characters of the image file name, what
\* get_orientation() does and the points of get_Coords().
PageObjects ==
    { [imageFilename |-> <<"a", ".", "j">>, orientation |-> NoneV,
       points |-> PolyB],
      [imageFilename |-> <<"b", " ", "c">>, orientation |-> RaiseV,
       points |-> PolyA],
      [imageFilename |-> <<"a", ".", "j">>, orientation |-> Val(350),
       points |-> PolyB],
      [imageFilename |-> <<"b", "/", "c">>, orientation |-> Val(-20),
       points |-> BadPoints] }

\* fl.pageId of the n-th file of the file group (n from 1): distinct ids
RECURSIVE PageIdOf(_)
PageIdOf(n) == IF n <= 1 THEN "p" ELSE PageIdOf(n - 1) \o "_a"

-----------------------------------------------------------------------------
(* Pure functions *)

IsNumber(r) == r.kind = "value"

RECURSIVE SeqMin(_, _), SeqMax(_, _)
SeqMin(s, k) ==
    IF Len(s) = 1 THEN s[1][k]
    ELSE LET m == SeqMin(Tail(s), k) IN IF s[1][k] < m THEN s[1][k] ELSE m
SeqMax(s, k) ==
    IF Len(s) = 1 THEN s[1][k]
    ELSE LET m == SeqMax(Tail(s), k) IN IF s[1][k] > m THEN s[1][k] ELSE m

\* bbox_from_points raises when the points give no box
BboxRaises(points) == points = BadPoints
\* bbox_from_points: (x0, y0, x1, y1)
bbox_from_points(points) ==
    <<SeqMin(points, 1), SeqMin(points, 2), SeqMax(points, 1), SeqMax(points, 2)>>

\* str(x0) + ',' + str(y0) + ',' + str(x1 - x0) + ',' + str(y1 - y0)
RegionString(points) ==
    LET b == bbox_from_points(points)
    IN  ToString(b[1]) \o "," \o ToString(b[2]) \o "," \o
        ToString(b[3] - b[1]) \o "," \o ToString(b[4] - b[2])

\* try: rotation = page.get_orientation()  except: rotation = 0.0
PageRotation(orientation) ==
    IF orientation.kind = "raise" THEN Val(0) ELSE orientation

\* try: r = parent + x.get_orientation()  except: r = parent
\* (the getter raising, and the TypeError of adding None, both end in the
\* except branch)
AddOrientation(parent, orientation) ==
    IF IsNumber(parent) /\ IsNumber(orientation)
    THEN Val(parent.v + orientation.v)
    ELSE parent

\* rotation % 360 raises TypeError when rotation is None
ModRaises(rotation) == ~IsNumber(rotation)
\* variant: str(rotation), without the modulo
RotationStringNoMod(rotation) == ToString(rotation.v) \o ".0"

\* str(rotation % 360), of a float with a whole value
RotationString(rotation) == ToString(rotation.v % FullTurn) \o ".0"

\* quote(s, safe=''): letters, digits and _.-~ are kept, the rest is
\* percent-encoded
QuoteChar(c) ==
    IF c = " " THEN "%20" ELSE IF c = "/" THEN "%2F" ELSE c
RECURSIVE quote(_)
quote(s) == IF s = << >> THEN "" ELSE QuoteChar(Head(s)) \o quote(Tail(s))
\* base_url after scheme, server and prefix are substituted
base_url == "http://server"
\* re.sub('identifier', quote(page.get_imageFilename(), safe=''), base_url)
UrlOf(imageFilename) == base_url \o "/" \o quote(imageFilename)

\* variant: segment_id = page_id + segment.get_id()
SegmentIdNoSeparator(page_id, local_id) == page_id \o local_id

\* segment_id = page_id + '_' + segment.get_id()
SegmentId(page_id, local_id) == page_id \o "_" \o local_id

\* language, with the '-' sentinel
LanguageOf(obj) ==
    IF obj.language \in {"raise", "None"} THEN "-" ELSE obj.language
\* font_family, with the '-' sentinel
FontFamilyOf(obj) ==
    IF obj.style \in {"raise", "None"} THEN "-"
    ELSE IF obj.fontFamily \in {"raise", "None"} THEN "-" ELSE obj.fontFamily

out_columns ==
    IF purpose = "fonts"
    THEN <<"text_equiv", "language", "font_family", "segment_type", "segment_id",
           "url_id", "region", "rotation", "full_region", "full_rotation">>
    ELSE <<"segment_type", "segment_id", "url_id", "region", "rotation">>

\* 'Region' in segment_type
IsRegionType == segment_type \in {"TextRegion", "ImageRegion"}

-----------------------------------------------------------------------------
(* page2tsv *)

\* the tuple appended to tsv for purpose skew (105, 156, 289)
SkewRow(sid, url_id, region, rotation, path) ==
    [segment_type |-> segment_type, segment_id |-> sid, url_id |-> url_id,
     region |-> region, rotation |-> rotation, path |-> path]

\* the tuple appended to tsv for purpose fonts (267-285)
FontsRow(text, obj, sid, url_id, region, full, path) ==
    [text_equiv |-> text, language |-> LanguageOf(obj),
     font_family |-> FontFamilyOf(obj), segment_type |-> segment_type,
     segment_id |-> sid, url_id |-> url_id, region |-> region.box,
     rotation |-> region.rotation, full_region |-> full.box,
     full_rotation |-> full.rotation, path |-> path]

NoObject ==
    [id |-> "", orientation |-> NoneV, points |-> BadPoints,
     equivs |-> NoEquivs, language |-> "None", style |-> "None",
     fontFamily |-> "None"]
NoNode == [path |-> << >>, obj |-> NoObject]
NoPage ==
    [number |-> 0, page_id |-> "", url_id |-> 0, rotation |-> NoneV,
     points |-> BadPoints, nregions |-> 0]
NoCur == [reg |-> NoNode, region_rotation |-> NoneV, n |-> 0]

SegmentTypes == {"Page", "TextRegion", "TextLine", "Word"}
Purposes == {"fonts", "skew"}

\* page2tsv before it runs, for every choice of its options
InitPage2Tsv ==
    /\ purpose \in Purposes
    /\ segment_type \in SegmentTypes
    /\ pc = "start"
    /\ exc = "none"
    /\ outfile = [header |-> << >>, comments |-> << >>, rows |-> << >>]
    /\ tsv = << >>
    /\ urls = << >>
    /\ page = NoPage
    /\ cur = NoCur
    /\ lines = << >>
    /\ segments = << >>
    /\ idx = 0
    /\ nodes = 0
    /\ pages = << >>
    /\ doc = { }

\* page2tsv is not run
IdlePage2Tsv ==
    /\ purpose = "fonts"
    /\ segment_type = "Page"
    /\ pc = "idle"
    /\ exc = "none"
    /\ outfile = [header |-> << >>, comments |-> << >>, rows |-> << >>]
    /\ tsv = << >>
    /\ urls = << >>
    /\ page = NoPage
    /\ cur = NoCur
    /\ lines = << >>
    /\ segments = << >>
    /\ idx = 0
    /\ nodes = 0
    /\ pages = << >>
    /\ doc = { }

\* 95-130: the header row is written to a fresh file
Start ==
    /\ pc = "start"
    /\ outfile' = [header |-> out_columns, comments |-> << >>, rows |-> << >>]
    /\ pc' = "files"
    /\ UNCHANGED <<purpose, segment_type, exc, tsv, urls, page, cur, lines,
                   segments, idx, nodes, pages, doc, t2p, fe>>

\* variant: url_id = len(urls), an index counted from 1
UrlIdOneBased(us) == Len(us)

\* 150: url_id = len(urls) - 1
UrlId(us) == Len(us) - 1

\* an uncaught exception ends the command
Raise(e) ==
    /\ exc' = e
    /\ pc' = "aborted"

\* 132-158: the next file of the file group
NextFile(o) ==
    /\ pc = "files"
    /\ nodes < MaxNodes
    /\ nodes' = nodes + 1
    /\ urls' = Append(urls, UrlOf(o.imageFilename))
    /\ pages' = Append(pages, o)
    /\ LET rotation == PageRotation(o.orientation)
           page_id  == PageIdOf(Len(urls'))
           url_id   == UrlId(urls')
       IN  /\ page' = [number |-> Len(pages'), page_id |-> page_id,
                       url_id |-> url_id, rotation |-> rotation,
                       points |-> o.points, nregions |-> 0]
           /\ IF segment_type = "Page"
              THEN IF ModRaises(rotation)
                   THEN Raise("TypeError:153") /\ UNCHANGED tsv
                   ELSE /\ tsv' = IF purpose = "skew"
                                  THEN Append(tsv, SkewRow(page_id, url_id, "full",
                                                  RotationString(rotation),
                                                  <<Len(pages')>>))
                                  ELSE tsv
                        /\ UNCHANGED <<pc, exc>>
              ELSE /\ pc' = IF IsRegionType THEN "regions" ELSE "text_regions"
                   /\ UNCHANGED <<tsv, exc>>
    /\ segments' = << >>
    /\ lines' = << >>
    /\ UNCHANGED <<purpose, segment_type, outfile, cur, idx, doc, t2p, fe>>

\* one entry of segments or lines: (segment, rotation, full, full_rotation)
Entry(node, rotation, full, full_rotation) ==
    [seg |-> node, rotation |-> rotation, full |-> full,
     full_rotation |-> full_rotation]

\* variant: the new entry is put in front
PrependEntry(list, entry) == <<entry>> \o list

\* segments.append(...), lines.append(...), words.append(...)
AppendEntry(list, entry) == Append(list, entry)

\* 161-166: the next region of the requested class, in reading order
NextRegion(e) ==
    /\ pc = "regions"
    /\ nodes < MaxNodes
    /\ LET node == [path |-> <<page.number, page.nregions + 1>>, obj |-> e]
           region_rotation == AddOrientation(page.rotation, e.orientation)
       IN  /\ segments' = AppendEntry(segments,
                 Entry(node, region_rotation,
                       [path |-> <<page.number>>, points |-> page.points],
                       page.rotation))
           /\ doc' = doc \cup {node}
    /\ page' = [page EXCEPT !.nregions = @ + 1]
    /\ nodes' = nodes + 1
    /\ UNCHANGED <<purpose, segment_type, pc, exc, outfile, tsv, urls, cur,
                   lines, idx, pages, t2p, fe>>

\* 161: the regions of the page are exhausted; 194 starts
EndRegions ==
    /\ pc = "regions"
    /\ pc' = "segments"
    /\ idx' = 1
    /\ UNCHANGED <<purpose, segment_type, exc, outfile, tsv, urls, page, cur,
                   lines, segments, nodes, pages, doc, t2p, fe>>

\* 170-174: the next text region, in reading order
NextTextRegion(e) ==
    /\ pc = "text_regions"
    /\ nodes < MaxNodes
    /\ LET node == [path |-> <<page.number, page.nregions + 1>>, obj |-> e]
       IN  /\ cur' = [reg |-> node,
                      region_rotation |->
                          AddOrientation(page.rotation, e.orientation),
                      n |-> 0]
           /\ doc' = doc \cup {node}
    /\ page' = [page EXCEPT !.nregions = @ + 1]
    /\ nodes' = nodes + 1
    /\ pc' = "lines"
    /\ UNCHANGED <<purpose, segment_type, exc, outfile, tsv, urls, lines,
                   segments, idx, pages, t2p, fe>>

\* 175-180: the next line of the region
NextLine(e) ==
    /\ pc = "lines"
    /\ nodes < MaxNodes
    /\ LET node == [path |-> Append(cur.reg.path, cur.n + 1), obj |-> e]
           line_rotation == AddOrientation(cur.region_rotation, e.orientation)
       IN  /\ lines' = AppendEntry(lines,
                 Entry(node, line_rotation,
                       [path |-> cur.reg.path, points |-> cur.reg.obj.points],
                       cur.region_rotation))
           /\ doc' = doc \cup {node}
    /\ cur' = [cur EXCEPT !.n = @ + 1]
    /\ nodes' = nodes + 1
    /\ UNCHANGED <<purpose, segment_type, pc, exc, outfile, tsv, urls, page,
                   segments, idx, pages, t2p, fe>>

\* 175: the lines of the region are exhausted
EndLines ==
    /\ pc = "lines"
    /\ pc' = "text_regions"
    /\ UNCHANGED <<purpose, segment_type, exc, outfile, tsv, urls, page, cur,
                   lines, segments, idx, nodes, pages, doc, t2p, fe>>

\* 170, 181-185: the text regions are exhausted
EndTextRegions ==
    /\ pc = "text_regions"
    /\ IF segment_type = "TextLine"
       THEN /\ segments' = lines
            /\ pc' = "segments"
            /\ UNCHANGED cur
       ELSE /\ segments' = << >>
            /\ pc' = "words"
            /\ cur' = [cur EXCEPT !.n = 0]
    /\ idx' = 1
    /\ UNCHANGED <<purpose, segment_type, exc, outfile, tsv, urls, page,
                   lines, nodes, pages, doc, t2p, fe>>

\* 186-191: the next word of the line lines[idx]
NextWord(e) ==
    /\ pc = "words"
    /\ idx <= Len(lines)
    /\ nodes < MaxNodes
    /\ LET l == lines[idx]
           node == [path |-> Append(l.seg.path, cur.n + 1), obj |-> e]
           word_rotation == AddOrientation(l.rotation, e.orientation)
       IN  /\ segments' = AppendEntry(segments,
                 Entry(node, word_rotation, l.full, l.full_rotation))
           /\ doc' = doc \cup {node}
    /\ cur' = [cur EXCEPT !.n = @ + 1]
    /\ nodes' = nodes + 1
    /\ UNCHANGED <<purpose, segment_type, pc, exc, outfile, tsv, urls, page,
                   lines, idx, pages, t2p, fe>>

\* 186: the words of the line are exhausted; 185 takes the next line
EndWords ==
    /\ pc = "words"
    /\ idx <= Len(lines)
    /\ idx' = idx + 1
    /\ cur' = [cur EXCEPT !.n = 0]
    /\ UNCHANGED <<purpose, segment_type, pc, exc, outfile, tsv, urls, page,
                   lines, segments, nodes, pages, doc, t2p, fe>>

\* 185, 192: every line has been visited; segments = words
EndWordLines ==
    /\ pc = "words"
    /\ idx > Len(lines)
    /\ pc' = "segments"
    /\ idx' = 1
    /\ UNCHANGED <<purpose, segment_type, exc, outfile, tsv, urls, page, cur,
                   lines, segments, nodes, pages, doc, t2p, fe>>

\* variant: only the first text alternative gives a row
FontsRowsFirstOnly(text_equivs, row) ==
    IF text_equivs = << >> THEN << >>
    ELSE <<[row EXCEPT !.text_equiv = text_equivs[1]]>>

\* 266-285: one tuple per text alternative, alike in every other field
FontsRows(text_equivs, row) ==
    [k \in 1..Len(text_equivs) |-> [row EXCEPT !.text_equiv = text_equivs[k]]]

\* 195-289: the tuples one segment appends to tsv
SegmentRows(s) ==
    LET region     == [box |-> RegionString(s.seg.obj.points),
                       rotation |-> RotationString(s.rotation)]
        full       == [box |-> RegionString(s.full.points),
                       rotation |-> RotationString(s.full_rotation)]
        segment_id == SegmentId(page.page_id, s.seg.obj.id)
    IN  IF purpose = "fonts"
        THEN IF s.seg.obj.equivs.kind = "raise"
             THEN << >>
             ELSE FontsRows(s.seg.obj.equivs.v,
                            FontsRow("", s.seg.obj, segment_id, page.url_id,
                                     region, full, s.seg.path))
        ELSE <<SkewRow(segment_id, page.url_id, region.box, region.rotation,
                       s.seg.path)>>

\* 194-289: one iteration of the loop over segments
ProcessSegment ==
    /\ pc = "segments"
    /\ idx <= Len(segments)
    /\ LET s == segments[idx]
       IN  IF BboxRaises(s.seg.obj.points)
           THEN Raise("Error:196") /\ UNCHANGED tsv
           ELSE IF ModRaises(s.rotation)
           THEN Raise("TypeError:199") /\ UNCHANGED tsv
           ELSE IF BboxRaises(s.full.points)
           THEN Raise("Error:202") /\ UNCHANGED tsv
           ELSE IF ModRaises(s.full_rotation)
           THEN Raise("TypeError:205") /\ UNCHANGED tsv
           ELSE /\ tsv' = tsv \o SegmentRows(s)
                /\ UNCHANGED <<pc, exc>>
    /\ idx' = idx + 1
    /\ UNCHANGED <<purpose, segment_type, outfile, urls, page, cur, lines,
                   segments, nodes, pages, doc, t2p, fe>>

\* 194: the segments of the page are exhausted; 132 takes the next file
EndSegments ==
    /\ pc = "segments"
    /\ idx > Len(segments)
    /\ pc' = "files"
    /\ UNCHANGED <<purpose, segment_type, exc, outfile, tsv, urls, page, cur,
                   lines, segments, idx, nodes, pages, doc, t2p, fe>>

\* '# ' + url + '\n' for every url
RECURSIVE CommentLines(_)
CommentLines(us) ==
    IF us = << >> THEN << >> ELSE <<"# " \o Head(us)>> \o CommentLines(Tail(us))

\* 132, 291-304: the file group is exhausted; the table is written
Finish ==
    /\ pc = "files"
    /\ outfile' = IF Len(tsv) = 0 THEN outfile
                  ELSE [outfile EXCEPT !.comments = CommentLines(urls),
                                       !.rows = tsv]
    /\ pc' = "done"
    /\ UNCHANGED <<purpose, segment_type, exc, tsv, urls, page, cur, lines,
                   segments, idx, nodes, pages, doc, t2p, fe>>

-----------------------------------------------------------------------------
(* tsv2page *)

\* at most this many rows in the correction table
MaxRows == 2

LineIds == {"l1", "l2"}
RowLineIds == {"l1", "l2", "l3"}
Texts == {"new", "fix"}

\* a TextLine element of the document: its id, whether it has a
\* TextEquiv/Unicode child, the text of that child, its number of Word children
TextLines ==
    [id : LineIds, unicode : BOOLEAN, text : {"old"}, words : {0, 2}]

\* the documents: at most one TextLine per id
Documents ==
    { d \in SUBSET TextLines : \A a, b \in d : a.id = b.id => a = b }

\* the correction tables: rows of (line_id, TEXT)
TableRows == [line_id : RowLineIds, TEXT : Texts]
RECURSIVE TablesOfLen(_)
TablesOfLen(n) ==
    IF n = 0 THEN { << >> }
    ELSE { Append(t, r) : t \in TablesOfLen(n - 1), r \in TableRows }
Tables == UNION { TablesOfLen(n) : n \in 0..MaxRows }

NoOutput == [written |-> FALSE, content |-> { }]

T2PIdle ==
    [pc |-> "idle", keep_words |-> FALSE, page_file |-> { }, tsv |-> << >>,
     tree |-> { }, i |-> 0, exc |-> "none", output |-> NoOutput]

InitTsv2Page ==
    t2p \in { [T2PIdle EXCEPT !.pc = "start", !.keep_words = k,
                              !.page_file = d, !.tsv = t] :
              k \in BOOLEAN, d \in Documents, t \in Tables }

\* 316-320: the table is read and the document parsed
T2PParse ==
    /\ t2p.pc = "start"
    /\ t2p' = [t2p EXCEPT !.pc = "rows", !.tree = t2p.page_file, !.i = 1]
    /\ UNCHANGED <<p2tVars, fe>>

\* variant: a row without target is passed over
FindNeverNone(tree, line_id) == FALSE

\* 322: tree.find(...) is None
FindIsNone(tree, line_id) == ~(\E l \in tree : l.id = line_id)

\* 323: el_textline.find('pc:TextEquiv/pc:Unicode') is None
UnicodeIsNone(tree, line_id) == \E l \in tree : l.id = line_id /\ ~l.unicode

\* 323-326: the text is overwritten and, unless keep_words, the words removed
PatchLine(tree, row, keep_words) ==
    { IF l.id = row.line_id
      THEN [l EXCEPT !.text = row.TEXT,
                     !.words = IF keep_words THEN @ ELSE 0]
      ELSE l : l \in tree }

\* 321-326: one row of the table
T2PRow ==
    /\ t2p.pc = "rows"
    /\ t2p.i <= Len(t2p.tsv)
    /\ LET row == t2p.tsv[t2p.i]
       IN  IF FindIsNone(t2p.tree, row.line_id)
           THEN t2p' = [t2p EXCEPT !.pc = "failed",
                                   !.exc = "AttributeError:323"]
           ELSE IF UnicodeIsNone(t2p.tree, row.line_id)
           THEN t2p' = [t2p EXCEPT !.pc = "failed",
                                   !.exc = "AttributeError:323"]
           ELSE t2p' = [t2p EXCEPT
                           !.tree = PatchLine(t2p.tree, row, t2p.keep_words),
                           !.i = @ + 1]
    /\ UNCHANGED <<p2tVars, fe>>

\* 327-328: the corrected document is written
T2PWrite ==
    /\ t2p.pc = "rows"
    /\ t2p.i > Len(t2p.tsv)
    /\ t2p' = [t2p EXCEPT !.pc = "done",
                          !.output = [written |-> TRUE, content |-> t2p.tree]]
    /\ UNCHANGED <<p2tVars, fe>>

NextTsv2Page ==
    \/ T2PParse
    \/ T2PRow
    \/ T2PWrite

-----------------------------------------------------------------------------
(* find_entities *)

\* the columns the table returned by read_tsv can have
Columns == {"No.", "TOKEN", "NE-TAG"}

FEIdle ==
    [pc |-> "idle", ner_rest_endpoint |-> "None", ned_rest_endpoint |-> "None",
     ned_json_file |-> "None", columns |-> { }, nrows |-> 0, exc |-> "none",
     calls |-> << >>, printed |-> FALSE, json_written |-> FALSE,
     written |-> FALSE]

\* the options and the input table: the endpoints are None or given,
\* ned_json_file is None, names an existing file or names a missing file
InitFindEntities ==
    fe \in { [FEIdle EXCEPT !.pc = "start", !.ner_rest_endpoint = e1,
                            !.ned_rest_endpoint = e2, !.ned_json_file = j,
                            !.columns = c, !.nrows = n] :
             e1 \in {"None", "http://ner"}, e2 \in {"None", "http://ned"},
             j \in {"None", "exists", "missing"}, c \in SUBSET Columns,
             n \in {0, 1} }

\* 332, 348: tsv_file has been checked to exist and has been read
TsvFileExists == TRUE

\* 360-364: the first column lookup that raises, or "none"
ReuseTagsError(f) ==
    IF "No." \notin f.columns THEN "KeyError:360"
    ELSE IF "NE-TAG" \notin f.columns THEN "KeyError:361"
    ELSE IF f.nrows > 0 /\ "TOKEN" \notin f.columns THEN "AttributeError:363"
    ELSE "none"

FEFail(e) == fe' = [fe EXCEPT !.pc = "failed", !.exc = e]

\* 351-366: the entity tags, from the NER service or from the table
\* (ok: whether the request succeeds; requests.HTTPError is caught at 380)
FENer(ok) ==
    /\ fe.pc = "start"
    /\ IF fe.ner_rest_endpoint # "None"
       THEN IF ok
            THEN fe' = [fe EXCEPT !.pc = "ned", !.calls = Append(@, "ner")]
            ELSE fe' = [fe EXCEPT !.pc = "done", !.calls = Append(@, "ner"),
                                  !.printed = TRUE]
       ELSE IF TsvFileExists
            THEN IF ReuseTagsError(fe) # "none"
                 THEN FEFail(ReuseTagsError(fe))
                 ELSE fe' = [fe EXCEPT !.pc = "ned"]
            ELSE FEFail("RuntimeError:366")
    /\ UNCHANGED <<p2tVars, t2p>>

\* 368-381: disambiguation, the json file and the output table
FENedAndWrite(ok) ==
    /\ fe.pc = "ned"
    /\ IF fe.ned_rest_endpoint # "None"
       THEN IF ok
            THEN fe' = [fe EXCEPT !.pc = "done", !.calls = Append(@, "ned"),
                           !.json_written = (fe.ned_json_file = "missing"),
                           !.written = TRUE]
            ELSE fe' = [fe EXCEPT !.pc = "done", !.calls = Append(@, "ned"),
                                  !.printed = TRUE]
       ELSE fe' = [fe EXCEPT !.pc = "done", !.written = TRUE]
    /\ UNCHANGED <<p2tVars, t2p>>

NextFindEntities ==
    \/ \E ok \in BOOLEAN : FENer(ok)
    \/ \E ok \in BOOLEAN : FENedAndWrite(ok)

-----------------------------------------------------------------------------
(* Specifications *)

Init == InitPage2Tsv /\ t2p = T2PIdle /\ fe = FEIdle

InitT2P == IdlePage2Tsv /\ InitTsv2Page /\ fe = FEIdle

InitFE == IdlePage2Tsv /\ t2p = T2PIdle /\ InitFindEntities

Next ==
    \/ Start
    \/ \E o \in PageObjects : NextFile(o)
    \/ \E e \in Elements : NextRegion(e)
    \/ EndRegions
    \/ \E e \in Elements : NextTextRegion(e)
    \/ \E e \in Elements : NextLine(e)
    \/ EndLines
    \/ EndTextRegions
    \/ \E e \in Elements : NextWord(e)
    \/ EndWords
    \/ EndWordLines
    \/ ProcessSegment
    \/ EndSegments
    \/ Finish

\* page2tsv
Spec == Init /\ [][Next]_vars

\* tsv2page
SpecTsv2Page == InitT2P /\ [][NextTsv2Page]_vars

\* find_entities
SpecFindEntities == InitFE /\ [][NextFindEntities]_vars

-----------------------------------------------------------------------------
(* Properties of page2tsv *)

\* the region, line or word read at a path
NodeAt(path) == CHOOSE n \in doc : n.path = path

\* the url_id values of the data rows of the output file
UrlIdsOf(rows) == { rows[i].url_id : i \in 1..Len(rows) }

\* the comment line of the page a row was extracted from
CommentOfRow(row) == "# " \o UrlOf(pages[row.path[1]].imageFilename)

RowsPointToTheirPage ==
    \A i \in 1..Len(outfile.rows) :
        LET row == outfile.rows[i]
        IN  /\ row.url_id \in 0..(Len(outfile.comments) - 1)
            /\ outfile.comments[row.url_id + 1] = CommentOfRow(row)

\* C1 as stated: in an output file with at least one data row, the number
\* of leading comment lines equals the number of distinct url_id values of
\* the rows, and every url_id indexes the URL of the row's page.
C1_CommentsEqualDistinctUrlIds ==
    outfile.rows # << >> =>
        /\ Len(outfile.comments) = Cardinality(UrlIdsOf(outfile.rows))
        /\ RowsPointToTheirPage

\* C1 amended: in an output file with at least one data row there is one
\* leading comment line per page of the file group, at least as many as
\* there are distinct url_id values in the rows, and every row's url_id is a
\* zero-based index whose comment line is the URL of the row's page.
C1_UrlIdIndexesPageUrl ==
    outfile.rows # << >> =>
        /\ Len(outfile.comments) = Len(pages)
        /\ Cardinality(UrlIdsOf(outfile.rows)) <= Len(outfile.comments)
        /\ RowsPointToTheirPage

\* a written file with rows of the second page and none of the first
C1_Witness ==
    /\ pc = "done"
    /\ outfile.rows # << >>
    /\ Len(outfile.comments) = 2
    /\ UrlIdsOf(outfile.rows) = {1}

\* the orientations on the path of a row, from the page down to the segment
OrientationsOf(path) ==
    [k \in 1..Len(path) |->
        IF k = 1 THEN pages[path[1]].orientation
        ELSE NodeAt(SubSeq(path, 1, k)).obj.orientation]

\* the number an orientation contributes to a rotation
Contribution(o) == IF o.kind = "value" THEN o.v ELSE 0

RECURSIVE SumOf(_)
SumOf(os) == IF os = << >> THEN 0 ELSE Contribution(Head(os)) + SumOf(Tail(os))

\* C2 as stated: an absent or unreadable orientation, at any level on the
\* path to a segment, contributes 0 to the emitted rotation and never
\* aborts the pass.
C2_OrientationNeverAborts ==
    /\ exc \notin {"TypeError:153", "TypeError:199", "TypeError:205"}
    /\ \A i \in 1..Len(tsv) :
          tsv[i].rotation =
             ToString(SumOf(OrientationsOf(tsv[i].path)) % FullTurn) \o ".0"

\* C3 as stated: a segment of the requested granularity whose polygon gives
\* no bounding box is skipped alone: it gives no record and the pass does
\* not abort on it.
C3_BadPolygonSkipsSegmentOnly ==
    /\ exc # "Error:196"
    /\ \A i \in 1..Len(tsv) :
          Len(tsv[i].path) > 1 => NodeAt(tsv[i].path).obj.points # BadPoints

\* C4 as stated: at a region granularity with purpose fonts, every record
\* has full_region = region and full_rotation = rotation.
C4_FullIsTheRegionItself ==
    (IsRegionType /\ purpose = "fonts") =>
        \A i \in 1..Len(tsv) :
            /\ tsv[i].full_region = tsv[i].region
            /\ tsv[i].full_rotation = tsv[i].rotation

AllNumeric(os) == \A k \in 1..Len(os) : os[k].kind = "value"

\* the strings of the whole degrees in [0, 360)
DegreeStrings == { ToString(d) \o ".0" : d \in 0..(FullTurn - 1) }

Depth ==
    IF segment_type = "Page" THEN 1
    ELSE IF IsRegionType THEN 2
    ELSE IF segment_type = "TextLine" THEN 3 ELSE 4

\* the iteration of the loop over segments is over for this node
Processed(n) ==
    /\ pc # "aborted"
    /\ \/ n.path[1] < page.number
       \/ pc \in {"files", "done"}
       \/ /\ pc = "segments"
          /\ \E k \in 1..(idx - 1) : k <= Len(segments) /\ segments[k].seg = n

\* the rows of a list that were extracted from the segment at a path
RECURSIVE RowsOf(_, _)
RowsOf(rows, path) ==
    IF rows = << >> THEN << >>
    ELSE (IF Head(rows).path = path THEN <<Head(rows)>> ELSE << >>)
         \o RowsOf(Tail(rows), path)

\* C6: with purpose fonts at a non-Page granularity a segment whose
\* extraction succeeds and that has N text alternatives produces exactly N
\* rows, one per alternative in their order, that differ only in text_equiv;
\* with purpose skew every segment produces exactly one row.  The rows of a
\* completed pass are the rows of the output file.
C6_RowsPerSegment ==
    /\ \A n \in doc :
          (Len(n.path) = Depth /\ Processed(n)) =>
              LET rs == RowsOf(tsv, n.path)
              IN  IF purpose = "skew" THEN Len(rs) = 1
                  ELSE n.obj.equivs.kind = "value" =>
                         /\ Len(rs) = Len(n.obj.equivs.v)
                         /\ \A k \in 1..Len(rs) :
                               /\ rs[k].text_equiv = n.obj.equivs.v[k]
                               /\ [rs[k] EXCEPT !.text_equiv = ""]
                                    = [rs[1] EXCEPT !.text_equiv = ""]
    /\ (segment_type = "Page" /\ purpose = "skew" /\ pc # "aborted") =>
          \A q \in 1..Len(pages) : Len(RowsOf(tsv, <<q>>)) = 1
    /\ (pc = "done" /\ tsv # << >>) => outfile.rows = tsv

\* a written file with the two rows of a segment with two alternatives
C6_Witness ==
    /\ pc = "done"
    /\ purpose = "fonts"
    /\ \E n \in doc :
          /\ Len(n.path) = Depth
          /\ Len(n.obj.equivs.v) = 2
          /\ Len(RowsOf(outfile.rows, n.path)) = 2

\* the local id of the segment of a row (a page has none)
LocalIdOf(row) ==
    IF Len(row.path) = 1 THEN "" ELSE NodeAt(row.path).obj.id

\* C7 as stated: for purpose skew every record's segment_id is page_id +
\* '_' + local id, and two records share a segment_id only when they come
\* from one page that has two segments with the same local id.
C7_SegmentIdUniqueInFile ==
    purpose = "skew" =>
        /\ \A i \in 1..Len(outfile.rows) :
              outfile.rows[i].segment_id =
                 PageIdOf(outfile.rows[i].path[1]) \o "_" \o LocalIdOf(outfile.rows[i])
        /\ \A i, j \in 1..Len(outfile.rows) :
              (i # j /\ outfile.rows[i].segment_id = outfile.rows[j].segment_id) =>
                 /\ outfile.rows[i].path[1] = outfile.rows[j].path[1]
                 /\ LocalIdOf(outfile.rows[i]) = LocalIdOf(outfile.rows[j])

\* C7 amended: for purpose skew every record's segment_id is page_id + '_' +
\* local id at a non-Page granularity and the page_id alone at granularity
\* Page, and two records of the same page file share a segment_id only when
\* that page has two segments with the same local id.
C7_SegmentIdUniqueInPage ==
    purpose = "skew" =>
        /\ \A i \in 1..Len(outfile.rows) :
              LET row == outfile.rows[i]
              IN  row.segment_id =
                     IF segment_type = "Page" THEN PageIdOf(row.path[1])
                     ELSE PageIdOf(row.path[1]) \o "_" \o LocalIdOf(row)
        /\ \A i, j \in 1..Len(outfile.rows) :
              LET a == outfile.rows[i]
                  b == outfile.rows[j]
              IN  (i # j /\ a.path[1] = b.path[1] /\ a.segment_id = b.segment_id)
                     => /\ segment_type # "Page"
                        /\ a.path # b.path
                        /\ LocalIdOf(a) = LocalIdOf(b)

\* a written skew file with two segments of one page that differ in their
\* local ids, and so in their segment_ids
C7_Witness ==
    /\ pc = "done"
    /\ purpose = "skew"
    /\ \E i, j \in 1..Len(outfile.rows) :
          /\ outfile.rows[i].path[1] = outfile.rows[j].path[1]
          /\ LocalIdOf(outfile.rows[i]) # LocalIdOf(outfile.rows[j])
          /\ outfile.rows[i].segment_id # outfile.rows[j].segment_id

\* lexicographic order of two paths of the same length
RECURSIVE PathLeq(_, _)
PathLeq(a, b) ==
    IF a = << >> THEN TRUE
    ELSE IF Head(a) # Head(b) THEN Head(a) < Head(b)
    ELSE PathLeq(Tail(a), Tail(b))

-----------------------------------------------------------------------------
(* Properties of tsv2page *)

\* the rows of the correction table whose line_id is not in the document
MissingRows ==
    { k \in 1..Len(t2p.tsv) :
        ~(\E l \in t2p.page_file : l.id = t2p.tsv[k].line_id) }

\* C8: when a row of the correction table names a line_id without a
\* TextLine in the document, the patch fails at that row at the latest (the
\* row is not skipped) and no corrected document is written.
C8_MissingTargetIsFatal ==
    MissingRows # { } =>
        /\ ~t2p.output.written
        /\ t2p.pc \in {"start", "rows", "failed"}
        /\ \A k \in MissingRows : t2p.i <= k

\* the patch failed on a missing target after an earlier row was applied
C8_Witness ==
    /\ t2p.pc = "failed"
    /\ t2p.i \in MissingRows
    /\ t2p.i > 1
    /\ t2p.tree # t2p.page_file
    /\ ~t2p.output.written

-----------------------------------------------------------------------------
(* Properties of find_entities *)

\* C9 as stated: without an NER endpoint and without an entity-tag column
\* the command fails with the configuration error, before any network call
\* and without writing the output table.
C9_ConfigurationError ==
    (/\ fe.pc \notin {"idle", "start"}
     /\ fe.ner_rest_endpoint = "None"
     /\ "NE-TAG" \notin fe.columns) =>
        /\ fe.pc = "failed"
        /\ fe.exc = "RuntimeError:366"
        /\ fe.calls = << >>
        /\ ~fe.written

=============================================================================
